---- MODULE Spec2Model ----
(***************************************************************************)
(* Octo-Tune: a harness that applies PostgreSQL runtime parameters,        *)
(* times a batch of probe queries under each configuration, stores the     *)
(* samples in SQLite and searches the configuration space (grid or         *)
(* Bayesian optimisation).                                                  *)
(*                                                                         *)
(* Four specifications share this module:                                  *)
(*   ProbeSpec      one run_query call at thread granularity: the caller,  *)
(*                  the FuncThread of run_with_timeout and the wall clock. *)
(*   ProbeLiveSpec  ProbeSpec under weak fairness of caller, thread, clock.*)
(*   BatchSpec      one run_enhanced_test_suite call of a grid run, one    *)
(*                  step per probe: the fixed queries, the heavy query,    *)
(*                  the pool's workers in every completion order; then     *)
(*                  save_results and the start of the next round.          *)
(*   Spec           one run of run_multi_parameter_tests: start-up, the    *)
(*                  round loop of either search mode, each SET, the batch  *)
(*                  as one step, save_results and the final clean-up.      *)
(***************************************************************************)
EXTENDS Integers, Sequences, FiniteSets, TLC

\* ------------------------------------------------------------------------
\* Bounds of the model
\* ------------------------------------------------------------------------
\* Wall-clock horizon of ProbeSpec, in ticks.
MaxTime == 5
\* Longest execution time of a probe query in ProbeSpec, in ticks.
MaxDur == 3
\* Largest deadline passed to run_query in ProbeSpec, in ticks.
MaxTimeout == 2
\* Largest number of grid combinations (rounds) of a run of Spec.
MaxCombos == 4
\* Number of objective evaluations the optimizer makes in a run of Spec
\* (the library's own count is its initial design plus max_iter=10).
MaxEvals == 2
\* Largest number of environment faults (a statement that fails, a SET the
\* server adjusts, a batch with a failing probe, a lost connection) in a run
\* of Spec.
MaxFaults == 2
\* Largest number of probes of one batch that go wrong in BatchSpec.
MaxProbeFaults == 2

\* ------------------------------------------------------------------------
\* Program constants
\* ------------------------------------------------------------------------
\* run_query: "return -1" on an execution error.
ErrSentinel == -1
\* run_query: timeout=30, the default every caller uses.
DefaultTimeout == 30
\* set_parameter_value: the tolerance 1e-6, in float units of 1e-7.
Epsilon == 10
\* run_concurrent_queries: the five ad-hoc queries.
NumConcurrent == 5
\* run_concurrent_queries: ThreadPoolExecutor(max_workers=5).
MaxWorkers == 5
\* setup_test_environment: generate_series(1, 10000), generate_series(1, 100000).
UsersPerCall == 10000
OrdersPerCall == 100000

\* ------------------------------------------------------------------------
\* State
\* ------------------------------------------------------------------------
VARIABLES
    \* ---- ProbeSpec: one run_query call ----
    now,               \* wall clock (time.time()), in ticks
    timeout,           \* run_query's timeout argument
    qdur,              \* how long the query's execution lasts
    qout,              \* how the execution ends: "rows", "raise" or "hang"
    cpc,               \* position of the caller inside run_query / run_with_timeout
    tpc,               \* FuncThread: "unstarted", "running", "finished"
    tstart,            \* time FuncThread.start() was called
    joinAt,            \* time join(timeout_duration) was called
    start_time,        \* run_query's start_time
    result,            \* FuncThread.result
    exc,               \* FuncThread.exc
    ret,               \* what run_query returned, once cpc is "returned"
    \* ---- Spec: one run of run_multi_parameter_tests ----
    use_bayesian_optimization,  \* argument
    parameter_values,  \* argument: the three value lists of grid mode
    pc,                \* position of the harness
    pg_conn,           \* tuner.pg_conn: "None", "open", "broken", "closed"
    sqlite_conn,       \* tuner.sqlite_conn: "None", "open", "closed"
    pg_settings,       \* the configuration active on the service
    combinations,      \* list(itertools.product(...))
    idx,               \* rounds started: the grid cursor / the evaluations asked
    cur,               \* the parameter values of the current round
    visited,           \* the parameter values of every round started, in order
    results,           \* the current batch's mapping, in insertion order
    qi,                \* run_test_suite: index of the next fixed query
    futures,           \* run_concurrent_queries: future i's outcome
    conc_results,      \* run_concurrent_queries: results, as as_completed yields
    raised,            \* probes of the current batch whose execution raised
    sqlite_rows,       \* performance_tests: committed rows
    sqlite_pending,    \* performance_tests: rows inserted, not yet committed
    obs,               \* the optimizer's observations (point, objective)
    last_set,          \* the last set_parameter_value call and how it ended
    last_save,         \* the last save_results call and how it ended
    round_errors,      \* rounds whose exception was caught at lines 243-244
    fatal,             \* the exception caught at lines 246-247, or "None"
    closed,            \* close_connections has been called
    executing,         \* probes whose execution is in progress on pg_conn
    dataset,           \* the service's base dataset: rows of users and orders
    best,              \* what optimize returned: best_params, best_performance
    budget             \* environment faults still allowed

probeVars == <<now, timeout, qdur, qout, cpc, tpc, tstart, joinAt, start_time,
               result, exc, ret>>

argVars == <<use_bayesian_optimization, parameter_values>>
connVars == <<pg_conn, sqlite_conn>>
searchVars == <<combinations, idx, cur, visited, obs>>
batchVars == <<results, qi, futures, conc_results, raised>>
storeVars == <<sqlite_rows, sqlite_pending>>
logVars == <<last_set, last_save, round_errors, fatal, closed>>

harnessVars == <<argVars, pc, connVars, pg_settings, searchVars, batchVars,
                 storeVars, logVars, executing, dataset, best, budget>>

vars == <<probeVars, harnessVars>>

None == "None"

\* ------------------------------------------------------------------------
\* Values: parameter texts, the server's parsing and formatting
\* ------------------------------------------------------------------------
\* A memory-size text such as '4MB' is [n |-> 4, u |-> "MB"]. A float text
\* is [v |-> units, z |-> trailing], v the number in units of 1e-7 and z
\* whether it is written with a trailing ".0" ('2.0' against '2').
Size(n, u) == [n |-> n, u |-> u]
FloatText(v, z) == [v |-> v, z |-> z]
Unit == 10000000

\* The server reads a size text into kB.
ParseSize(t) ==
    CASE t.u = "GB" -> t.n * 1048576
      [] t.u = "MB" -> t.n * 1024
      [] OTHER      -> t.n

\* SHOW prints a size in the largest unit that divides it.
ShowSize(kb) ==
    IF kb % 1048576 = 0 THEN Size(kb \div 1048576, "GB")
    ELSE IF kb % 1024 = 0 THEN Size(kb \div 1024, "MB")
    ELSE Size(kb, "kB")

\* SHOW prints a float in its shortest form: no trailing ".0".
ShowFloat(v) == FloatText(v, FALSE)

\* Python float(text), str(number) and int(number); a Bayesian point holds
\* its two sizes as reals in tenths of a MB.
PyFloat(t) == t.v
PyStr(v) == FloatText(v, v % Unit = 0)
PyInt(tenths) == tenths \div 10

Abs(x) == IF x < 0 THEN -x ELSE x

FloatParams == {"random_page_cost", "cpu_tuple_cost", "cpu_index_tuple_cost"}

\* The three parameters a round sets, in the order the harness sets them.
ParamOrder == <<"work_mem", "effective_cache_size", "random_page_cost">>

\* What the server holds for a parameter after accepting a SET of text t as
\* it stands: kB for a size, units for a float.
ServerParse(name, t) == IF name \in FloatParams THEN t.v ELSE ParseSize(t)

\* The text SHOW returns for a held value.
ServerShow(name, held) ==
    IF name \in FloatParams THEN ShowFloat(held) ELSE ShowSize(held)

\* How far from the request the server may settle when it clamps or rounds:
\* a size moves by one 8 kB page; a float by less than, or by exactly, the
\* tolerance.
Adjustments(name) == IF name \in FloatParams THEN {5, 10} ELSE {8}

\* set_parameter_value lines 59-72: the verification after SHOW. Its outcome
\* is what is printed: "ok" or "warning".
VerifyFloatExact(parameter_name, value, actual_value) ==
    IF actual_value = value THEN "ok" ELSE "warning"

Verify(parameter_name, value, actual_value) ==
    IF parameter_name \in FloatParams
      THEN IF Abs(PyFloat(actual_value) - PyFloat(value)) < Epsilon
             THEN "ok" ELSE "warning"
      ELSE IF actual_value # value THEN "warning" ELSE "ok"

\* ------------------------------------------------------------------------
\* Grid mode: itertools.product
\* ------------------------------------------------------------------------
\* One pass of itertools.product: [x + [y] for x in result for y in pool].
ProductStep(res, pool) ==
    [k \in 1..(Len(res) * Len(pool)) |->
        Append(res[((k - 1) \div Len(pool)) + 1], pool[((k - 1) % Len(pool)) + 1])]

\* The same lists taken with the first varying fastest.
ItertoolsProductReversed(a, b, c) ==
    LET r == ProductStep(ProductStep(ProductStep(<< <<>> >>, c), b), a)
    IN  [k \in 1..Len(r) |-> <<r[k][3], r[k][2], r[k][1]>>]

ItertoolsProduct(a, b, c) ==
    ProductStep(ProductStep(ProductStep(<< <<>> >>, a), b), c)

\* The value lists of the program's own main block, and the runs of the
\* model: every non-empty prefix of each list, up to MaxCombos combinations.
\* The first list also comes with its first size written in kB.
MainWorkMem == <<Size(4, "MB"), Size(16, "MB"), Size(64, "MB")>>
MainCacheSize == <<Size(100, "MB"), Size(200, "MB")>>
MainPageCost == <<FloatText(2 * Unit, TRUE), FloatText(3 * Unit, TRUE)>>

Prefixes(s) == {SubSeq(s, 1, n) : n \in 1..Len(s)}

GridInputs ==
    {pv \in [work_mem : Prefixes(MainWorkMem) \cup {<<Size(4096, "kB"), Size(16, "MB")>>},
             effective_cache_size : Prefixes(MainCacheSize),
             random_page_cost : Prefixes(MainPageCost)] :
        Len(pv.work_mem) * Len(pv.effective_cache_size) * Len(pv.random_page_cost)
            <= MaxCombos}

\* ------------------------------------------------------------------------
\* Model-based mode: the points the optimizer may ask for
\* ------------------------------------------------------------------------
\* Points of the domain (4,64) x (100,1000) x (1.0,4.0): sizes in tenths of a
\* MB, the cost in float units.
BayesPoints ==
    {<<127, 5123, 25 * (Unit \div 10)>>, <<640, 1000, 2 * Unit>>}

\* ------------------------------------------------------------------------
\* The batch: labels and the mapping
\* ------------------------------------------------------------------------
\* run_test_suite's four labels in declaration order, the label of the heavy
\* query, of the concurrent aggregate and of the concurrent positions.
FixedLabels == <<"simple_select", "join", "aggregate", "complex">>
ComplexLabel == "enhanced_complex"
ConcurrentLabel == "concurrent"
\* The positional labels, had the position been left out of the label.
ConcurrentLabelsUnnumbered ==
    <<"concurrent", "concurrent", "concurrent", "concurrent", "concurrent">>

ConcurrentLabels ==
    <<"concurrent_1", "concurrent_2", "concurrent_3", "concurrent_4", "concurrent_5">>

\* run_test_suite line 117: the for loop takes the tests in list order.
TestAtReversed(k) == FixedLabels[Len(FixedLabels) + 1 - k]

TestAt(k) == FixedLabels[k]

\* The ten probes of a batch by position: the fixed queries, the heavy
\* query, the concurrent queries in submission order.
ProbeLabel(p) ==
    IF p <= Len(FixedLabels) THEN FixedLabels[p]
    ELSE IF p = Len(FixedLabels) + 1 THEN ComplexLabel
    ELSE ConcurrentLabels[p - Len(FixedLabels) - 1]

\* Every probe reaches the service through the cursor run_query makes at
\* line 79, a cursor of the tuner's one connection.
ProbeConn(label) == "tuner.pg_conn"

\* The mapping is a Python dict: a sequence of items in insertion order;
\* assigning to a present key replaces its value in place.
DictHas(d, k) == \E j \in 1..Len(d) : d[j].test_name = k
DictGet(d, k) == d[CHOOSE j \in 1..Len(d) : d[j].test_name = k].execution_time
DictSet(d, k, v) ==
    IF DictHas(d, k)
      THEN [j \in 1..Len(d) |->
              IF d[j].test_name = k THEN [test_name |-> k, execution_time |-> v] ELSE d[j]]
      ELSE Append(d, [test_name |-> k, execution_time |-> v])
DictValues(d) == [j \in 1..Len(d) |-> d[j].execution_time]

RECURSIVE SeqMax(_)
SeqMax(s) ==
    IF s = <<>> THEN 0
    ELSE LET m == SeqMax(Tail(s)) IN IF Head(s) > m THEN Head(s) ELSE m

\* The sum of the elapsed times alone, the sentinels left out.
RECURSIVE SumOfElapsed(_)
SumOfElapsed(s) ==
    IF s = <<>> THEN 0
    ELSE (IF Head(s) < 0 THEN 0 ELSE Head(s)) + SumOfElapsed(Tail(s))

\* np.sum over the values of the mapping.
RECURSIVE SeqSum(_)
SeqSum(s) == IF s = <<>> THEN 0 ELSE Head(s) + SeqSum(Tail(s))

\* What run_query returns for each way a probe can go: it completes in one
\* second; it is still running at the deadline; its execution raises; it
\* ends between join's time-out and the is_alive check (ProbeSpec), one
\* second late.
RunQueryValue(outcome) ==
    CASE outcome = "ok"      -> 1
      [] outcome = "timeout" -> DefaultTimeout
      [] outcome = "late"    -> DefaultTimeout + 1
      [] OTHER               -> ErrSentinel

ProbeFaults == {"timeout", "late", "error", "lost"}

\* ------------------------------------------------------------------------
\* ProbeSpec: run_query and run_with_timeout, one step per statement
\* ------------------------------------------------------------------------
\* FuncThread is alive from start() until run() has ended.
is_alive == tpc = "running"

\* The execution that FuncThread.run performs ends exactly qdur ticks after
\* the thread was started, unless it hangs.
ExecutionEndsNow == tpc = "running" /\ qout # "hang" /\ now = tstart + qdur

ProbeStart ==
    /\ now = 0
    /\ timeout \in 1..MaxTimeout
    /\ qdur \in 0..MaxDur
    /\ qout \in {"rows", "raise", "hang"}
    /\ cpc = "call"
    /\ tpc = "unstarted"
    /\ tstart = 0
    /\ joinAt = 0
    /\ start_time = 0
    /\ result = None
    /\ exc = None
    /\ ret = 0

\* run_query lines 79-85: the cursor is made, start_time is taken.
RunQueryBegin ==
    /\ cpc = "call"
    /\ start_time' = now
    /\ cpc' = "start_thread"
    /\ UNCHANGED <<now, timeout, qdur, qout, tpc, tstart, joinAt, result, exc, ret>>
    /\ UNCHANGED harnessVars

\* run_with_timeout lines 23-24: func_thread.start().
FuncThreadStart ==
    /\ cpc = "start_thread"
    /\ tpc' = "running"
    /\ tstart' = now
    /\ cpc' = "call_join"
    /\ UNCHANGED <<now, timeout, qdur, qout, joinAt, start_time, result, exc, ret>>
    /\ UNCHANGED harnessVars

\* run_with_timeout line 25: func_thread.join(timeout_duration) is entered.
JoinCall ==
    /\ cpc = "call_join"
    /\ joinAt' = now
    /\ cpc' = "joining"
    /\ UNCHANGED <<now, timeout, qdur, qout, tpc, tstart, start_time, result, exc, ret>>
    /\ UNCHANGED harnessVars

\* join with no timeout argument returns only when the thread has ended.
JoinWithoutTimeout == tpc = "finished"

\* join(timeout_duration) returns when the thread has ended or the deadline
\* has passed.
JoinDone == tpc = "finished" \/ now >= joinAt + timeout

JoinReturn ==
    /\ cpc = "joining"
    /\ JoinDone
    /\ cpc' = "check_alive"
    /\ UNCHANGED <<now, timeout, qdur, qout, tpc, tstart, joinAt, start_time, result, exc, ret>>
    /\ UNCHANGED harnessVars

\* run_with_timeout lines 27-28 and run_query lines 89-91: a thread still
\* alive raises TimeoutException, which run_query turns into the deadline.
CheckAlive ==
    /\ cpc = "check_alive"
    /\ IF is_alive
         THEN /\ ret' = timeout
              /\ cpc' = "returned"
         ELSE /\ cpc' = "check_exc"
              /\ UNCHANGED ret
    /\ UNCHANGED <<now, timeout, qdur, qout, tpc, tstart, joinAt, start_time, result, exc>>
    /\ UNCHANGED harnessVars

\* run_with_timeout lines 30-33 and run_query lines 87-88, 92-94: a stored
\* exception is re-raised and becomes -1, otherwise the elapsed time is
\* returned.
CheckExc ==
    /\ cpc = "check_exc"
    /\ ret' = IF exc # None THEN ErrSentinel ELSE now - start_time
    /\ cpc' = "returned"
    /\ UNCHANGED <<now, timeout, qdur, qout, tpc, tstart, joinAt, start_time, result, exc>>
    /\ UNCHANGED harnessVars

\* FuncThread.run lines 17-21: the execution ends, with rows or an exception.
FuncThreadRun ==
    /\ ExecutionEndsNow
    /\ IF qout = "rows"
         THEN result' = "rows" /\ UNCHANGED exc
         ELSE exc' = "Error" /\ UNCHANGED result
    /\ tpc' = "finished"
    /\ UNCHANGED <<now, timeout, qdur, qout, cpc, tstart, joinAt, start_time, ret>>
    /\ UNCHANGED harnessVars

\* The clock advances; an execution ends at its own time, so the clock does
\* not pass that time while the thread is still running. The horizon does
\* not stop the clock short of the deadline of a join under way.
Tick ==
    /\ \/ now < MaxTime
       \/ cpc = "joining" /\ now < joinAt + timeout
    /\ ~ExecutionEndsNow
    /\ now' = now + 1
    /\ UNCHANGED <<timeout, qdur, qout, cpc, tpc, tstart, joinAt, start_time, result, exc, ret>>
    /\ UNCHANGED harnessVars

ProbeNext ==
    \/ RunQueryBegin
    \/ FuncThreadStart
    \/ JoinCall
    \/ JoinReturn
    \/ CheckAlive
    \/ CheckExc
    \/ FuncThreadRun
    \/ Tick

\* ------------------------------------------------------------------------
\* Spec: run_multi_parameter_tests
\* ------------------------------------------------------------------------
Pending == [state |-> "pending", value |-> 0]
NoSet == [name |-> None, value |-> None, actual |-> None, log |-> None,
          error |-> None, ret |-> None, raised |-> FALSE]
NoSave == [round |-> 0, status |-> None]
NoBest == [reported |-> FALSE, x |-> <<>>, fx |-> 0]

\* performance_tests as an earlier grid run left it: a row of its first round.
PriorRows ==
    << [work_mem |-> MainWorkMem[1],
        effective_cache_size |-> MainCacheSize[1],
        random_page_cost |-> PyFloat(MainPageCost[1]),
        execution_time |-> RunQueryValue("ok"),
        test_name |-> FixedLabels[1]] >>

\* The base dataset, as its numbers of rows.
NoData == [users |-> 0, orders |-> 0]

\* setup_test_environment lines 60-68: both INSERT ... SELECT statements
\* name no conflict target and supply no key (id is SERIAL), so ON CONFLICT
\* DO NOTHING never skips a row.
InsertSampleData(d) ==
    [users |-> d.users + UsersPerCall, orders |-> d.orders + OrdersPerCall]

\* In Spec the probe of ProbeSpec does not run.
ProbeIdle ==
    /\ now = 0 /\ timeout = DefaultTimeout /\ qdur = 0 /\ qout = "rows"
    /\ cpc = "idle" /\ tpc = "unstarted" /\ tstart = 0 /\ joinAt = 0
    /\ start_time = 0 /\ result = None /\ exc = None /\ ret = 0

HarnessStart ==
    /\ use_bayesian_optimization \in BOOLEAN
    /\ parameter_values \in
         (IF use_bayesian_optimization
            THEN {[work_mem |-> MainWorkMem, effective_cache_size |-> MainCacheSize,
                   random_page_cost |-> MainPageCost]}
            ELSE GridInputs)
    /\ pc = "connect_postgresql"
    /\ pg_conn = None
    /\ sqlite_conn = None
    \* the server's defaults: 4MB, 4GB, 4.0
    /\ pg_settings = [work_mem |-> ParseSize(Size(4, "MB")),
                      effective_cache_size |-> ParseSize(Size(4, "GB")),
                      random_page_cost |-> 4 * Unit]
    /\ combinations = <<>>
    /\ idx = 0
    /\ cur = <<>>
    /\ visited = <<>>
    /\ results = <<>>
    /\ qi = 1
    /\ futures = [i \in 1..NumConcurrent |-> Pending]
    /\ conc_results = <<>>
    /\ raised = {}
    \* the store is a file that outlives a run: it is empty, or holds the
    \* rows of an earlier run
    /\ sqlite_rows \in {<<>>, PriorRows}
    /\ sqlite_pending = <<>>
    /\ obs = <<>>
    /\ last_set = NoSet
    /\ last_save = NoSave
    /\ round_errors = <<>>
    /\ fatal = None
    /\ closed = FALSE
    /\ executing = {}
    \* the database outlives a run: it is fresh, or an earlier run filled it
    /\ dataset \in {NoData, InsertSampleData(NoData)}
    /\ best = NoBest
    /\ budget = MaxFaults

\* The harness as it enters run_enhanced_test_suite in the first of two
\* rounds of a grid run: the three SETs are done.
BatchStart ==
    /\ use_bayesian_optimization = FALSE
    /\ parameter_values = [work_mem |-> SubSeq(MainWorkMem, 1, 2),
                           effective_cache_size |-> SubSeq(MainCacheSize, 1, 1),
                           random_page_cost |-> SubSeq(MainPageCost, 1, 1)]
    /\ pc = "run_test_suite"
    /\ pg_conn = "open"
    /\ sqlite_conn = "open"
    /\ pg_settings = [work_mem |-> ParseSize(Size(4, "MB")),
                      effective_cache_size |-> ParseSize(Size(4, "GB")),
                      random_page_cost |-> 4 * Unit]
    /\ combinations =
         IF use_bayesian_optimization THEN <<>>
         ELSE ItertoolsProduct(parameter_values.work_mem,
                               parameter_values.effective_cache_size,
                               parameter_values.random_page_cost)
    /\ idx = 1
    /\ cur = IF use_bayesian_optimization
               THEN CHOOSE x \in BayesPoints : TRUE ELSE combinations[1]
    /\ visited = <<cur>>
    /\ results = <<>>
    /\ qi = 1
    /\ futures = [i \in 1..NumConcurrent |-> Pending]
    /\ conc_results = <<>>
    /\ raised = {}
    /\ sqlite_rows = <<>>
    /\ sqlite_pending = <<>>
    /\ obs = <<>>
    /\ last_set = NoSet
    /\ last_save = NoSave
    /\ round_errors = <<>>
    /\ fatal = None
    /\ closed = FALSE
    /\ executing = {}
    /\ dataset = InsertSampleData(NoData)
    /\ best = NoBest
    /\ budget = MaxProbeFaults

Init == ProbeIdle /\ HarnessStart
\* A probe of ProbeSpec is a probe of the first batch.
ProbeInit == ProbeStart /\ BatchStart
BatchInit == ProbeIdle /\ BatchStart

\* The environment may inject a fault while the budget lasts.
MayFault == budget > 0
Fault(isFault) == budget' = IF isFault THEN budget - 1 ELSE budget

\* ---- exceptions ----
\* Which handler an exception raised by the batch or by save_results meets
\* first: the round's try of grid mode (lines 240-244), or, in model-based
\* mode where objective_function has no try, the outer one (lines 246-247).
RoundHandlerAlwaysRound == "round"

RoundHandler == IF use_bayesian_optimization THEN "outer" ELSE "round"

\* The exception reaches lines 246-247; the finally block comes next.
RaiseOuter(e) ==
    /\ fatal' = e
    /\ pc' = "close_connections"
    /\ UNCHANGED round_errors

\* The exception is raised inside lines 241-242 (grid) or inside
\* objective_function (model-based).
RaiseInRound(e) ==
    IF RoundHandler = "round"
      THEN /\ round_errors' = Append(round_errors, idx)
           /\ pc' = IF use_bayesian_optimization THEN "objective_return" ELSE "next_round"
           /\ UNCHANGED fatal
      ELSE RaiseOuter(e)

\* ---- start-up, lines 204-212 ----
ConnectPostgresql ==
    /\ pc = "connect_postgresql"
    /\ \E ok \in BOOLEAN :
         /\ ~ok => MayFault
         /\ pg_conn' = IF ok THEN "open" ELSE pg_conn
         /\ Fault(~ok)
    /\ pc' = "connect_sqlite"
    /\ UNCHANGED <<argVars, sqlite_conn, pg_settings, searchVars, batchVars,
                   storeVars, logVars, executing, dataset, best,
                   probeVars>>

ConnectSqlite ==
    /\ pc = "connect_sqlite"
    /\ \E ok \in BOOLEAN :
         /\ ~ok => MayFault
         /\ sqlite_conn' = IF ok THEN "open" ELSE sqlite_conn
         /\ Fault(~ok)
    /\ pc' = "create_sqlite_tables"
    /\ UNCHANGED <<argVars, pg_conn, pg_settings, searchVars, batchVars,
                   storeVars, logVars, executing, dataset, best,
                   probeVars>>

\* sqlite_conn.cursor() on None raises AttributeError.
CreateSqliteTables ==
    /\ pc = "create_sqlite_tables"
    /\ IF sqlite_conn = "open"
         THEN pc' = "clear_sqlite_data" /\ UNCHANGED <<fatal, round_errors>>
         ELSE RaiseOuter("AttributeError")
    /\ UNCHANGED <<argVars, connVars, pg_settings, searchVars, batchVars,
                   storeVars, last_set, last_save, closed, budget, executing, dataset, best,
                   probeVars>>

\* DELETE FROM performance_tests; commit.
ClearSqliteData ==
    /\ pc = "clear_sqlite_data"
    /\ sqlite_rows' = <<>>
    /\ sqlite_pending' = <<>>
    /\ pc' = "setup_test_environment"
    /\ UNCHANGED <<argVars, connVars, pg_settings, searchVars, batchVars,
                   logVars, budget, executing, dataset, best,
                   probeVars>>

\* pg_conn.cursor() is called before the try: on None it raises
\* AttributeError. Errors of the statements themselves are caught inside.
SetupTestEnvironment ==
    /\ pc = "setup_test_environment"
    /\ IF pg_conn = "open"
         THEN /\ \E ok \in BOOLEAN :
                   /\ ~ok => MayFault
                   /\ Fault(~ok)
                   \* lines 70 and 73: commit, or rollback of everything
                   /\ dataset' = IF ok THEN InsertSampleData(dataset) ELSE dataset
              /\ pc' = "start_search"
              /\ UNCHANGED <<fatal, round_errors>>
         ELSE /\ RaiseOuter("AttributeError")
              /\ UNCHANGED <<dataset, budget>>
    /\ UNCHANGED <<argVars, connVars, pg_settings, searchVars, batchVars,
                   storeVars, last_set, last_save, closed, executing, best,
                   probeVars>>

\* Lines 214-228: the optimizer is built, or the combinations are listed.
StartSearch ==
    /\ pc = "start_search"
    /\ combinations' =
         IF use_bayesian_optimization THEN combinations
         ELSE ItertoolsProduct(parameter_values.work_mem,
                               parameter_values.effective_cache_size,
                               parameter_values.random_page_cost)
    /\ pc' = "next_round"
    /\ UNCHANGED <<argVars, connVars, pg_settings, idx, cur, visited, obs,
                   batchVars, storeVars, logVars, budget, executing, dataset, best,
                   probeVars>>

\* ---- the round loop ----
StartRound(point) ==
    /\ idx' = idx + 1
    /\ cur' = point
    /\ visited' = Append(visited, point)
    /\ results' = <<>>
    /\ qi' = 1
    /\ futures' = [i \in 1..NumConcurrent |-> Pending]
    /\ conc_results' = <<>>
    /\ raised' = {}
    /\ pc' = "set_work_mem"

\* Line 230: the for loop takes the next combination, or ends.
GridNext ==
    /\ pc = "next_round"
    /\ ~use_bayesian_optimization
    /\ IF idx < Len(combinations)
         THEN StartRound(combinations[idx + 1])
         ELSE /\ pc' = "close_connections"
              /\ UNCHANGED <<idx, cur, visited, batchVars>>
    /\ UNCHANGED <<argVars, connVars, pg_settings, combinations, obs,
                   storeVars, logVars, budget, executing, dataset, best,
                   probeVars>>

\* optimizer.x_opt, optimizer.fx_opt: the library keeps every evaluation and
\* returns the one of least objective, the earliest on a tie (argmin).
ArgMinLast(o) ==
    Len(o)

ArgMin(o) ==
    CHOOSE n \in 1..Len(o) :
        /\ \A m \in 1..Len(o) : o[n].fx <= o[m].fx
        /\ \A m \in 1..(n - 1) : o[m].fx > o[n].fx

\* optimize, lines 127-130: the optimizer asks for the objective at a point
\* of its choice, or, its budget used, returns.
OptimizerNext ==
    /\ pc = "next_round"
    /\ use_bayesian_optimization
    /\ IF idx < MaxEvals
         THEN /\ \E x \in BayesPoints : StartRound(x)
              /\ UNCHANGED best
         ELSE \* line 130 and lines 217-221: the best pair is returned, printed
              /\ best' = [reported |-> TRUE, x |-> obs[ArgMin(obs)].x,
                                              fx |-> obs[ArgMin(obs)].fx]
              /\ pc' = "close_connections"
              /\ UNCHANGED <<idx, cur, visited, batchVars>>
    /\ UNCHANGED <<argVars, connVars, pg_settings, combinations, obs,
                   storeVars, logVars, budget, executing, dataset,
                   probeVars>>

\* ---- set_parameter_value, lines 47-76 ----
SetPcs == <<"set_work_mem", "set_effective_cache_size", "set_random_page_cost">>
SetIndex == CHOOSE k \in 1..3 : SetPcs[k] = pc
AfterSet(k) == IF k < 3 THEN SetPcs[k + 1] ELSE "run_enhanced_test_suite"

\* The value text the harness passes for the k-th parameter: the grid's own
\* text (lines 236-238), or the point coerced (lines 109-111).
RequestedText(k) ==
    IF use_bayesian_optimization
      THEN IF k < 3 THEN Size(PyInt(cur[k]), "MB") ELSE PyStr(cur[k])
      ELSE cur[k]

\* What the call hands back to its caller: the function has no return
\* statement, whether the statements ran or psycopg2.Error was caught.
SetReturn(log) == None

SetFaults == {"adjusted", "denied", "lost_set", "lost_show"}

SetParameterValue ==
    /\ pc \in {SetPcs[k] : k \in 1..3}
    /\ LET k == SetIndex
           parameter_name == ParamOrder[k]
           value == RequestedText(k)
       IN  IF pg_conn # "open"
             \* line 48, before the try: cursor() of a lost connection raises
             THEN /\ last_set' = [name |-> parameter_name, value |-> value,
                                  actual |-> None, log |-> None, error |-> None,
                                  ret |-> None, raised |-> TRUE]
                  /\ RaiseOuter("InterfaceError")
                  /\ UNCHANGED <<pg_conn, pg_settings, budget, executing>>
             ELSE \E outcome \in {"exact"} \cup SetFaults :
                  \E d \in Adjustments(parameter_name) :
                    /\ outcome # "exact" => MayFault
                    /\ outcome # "adjusted" =>
                         d = CHOOSE e \in Adjustments(parameter_name) : TRUE
                    /\ Fault(outcome # "exact")
                    /\ LET held == IF outcome = "adjusted"
                                     THEN ServerParse(parameter_name, value) - d
                                     ELSE ServerParse(parameter_name, value)
                           applied == outcome \in {"exact", "adjusted", "lost_show"}
                           shown == outcome \in {"exact", "adjusted"}
                           actual_value == ServerShow(parameter_name, held)
                           log == IF shown
                                    THEN Verify(parameter_name, value, actual_value)
                                    ELSE "error"
                           \* line 74 prints the psycopg2.Error it caught
                           e == CASE shown -> None
                                  [] outcome = "denied" -> "psycopg2.Error"
                                  [] OTHER -> "OperationalError"
                       IN  /\ pg_settings' =
                                IF applied
                                  THEN [pg_settings EXCEPT ![parameter_name] = held]
                                  ELSE pg_settings
                           /\ pg_conn' = IF outcome \in {"lost_set", "lost_show"}
                                           THEN "broken" ELSE pg_conn
                           /\ executing' = IF outcome \in {"lost_set", "lost_show"}
                                             THEN {} ELSE executing
                           /\ last_set' = [name |-> parameter_name, value |-> value,
                                           actual |-> IF shown THEN actual_value ELSE None,
                                           log |-> log, error |-> e,
                                           ret |-> SetReturn(log),
                                           raised |-> FALSE]
                    /\ pc' = AfterSet(k)
                    /\ UNCHANGED <<fatal, round_errors>>
    /\ UNCHANGED <<argVars, sqlite_conn, searchVars, batchVars, storeVars,
                   last_save, closed, dataset, best,
                   probeVars>>

\* ---- run_query as one step of the harness, lines 78-96 ----
\* The connection after a probe: a lost connection stays broken.
ConnAfter(outcome) == IF outcome = "lost" THEN "broken" ELSE pg_conn
Raises(outcome) == outcome \in {"error", "lost"}

\* The executions in progress on the connection once run_query has returned
\* for the probe: had the caller joined or cancelled the thread, the probe's
\* execution would be over.
JoinedOrCancelled(label, outcome) ==
    IF outcome = "lost" THEN {} ELSE executing \ {label}

\* run_with_timeout lines 25-28: on a time-out the thread is left running,
\* and with it the execution. A lost connection ends every execution on it.
StillExecuting(label, outcome) ==
    CASE outcome = "timeout" -> executing \cup {label}
      [] outcome = "lost"    -> {}
      [] OTHER               -> executing \ {label}

\* run_test_suite, lines 116-122: the next fixed query is run and entered
\* under its label. cursor() is called before run_query's try.
RunTestSuiteQuery ==
    /\ pc = "run_test_suite"
    /\ IF pg_conn # "open"
         THEN /\ RaiseInRound("InterfaceError")
              /\ UNCHANGED <<pg_conn, batchVars, budget, executing>>
         ELSE \E outcome \in {"ok"} \cup ProbeFaults :
                /\ outcome # "ok" => MayFault
                /\ Fault(outcome # "ok")
                /\ results' = DictSet(results, TestAt(qi), RunQueryValue(outcome))
                /\ raised' = IF Raises(outcome) THEN raised \cup {TestAt(qi)} ELSE raised
                /\ pg_conn' = ConnAfter(outcome)
                /\ executing' = StillExecuting(TestAt(qi), outcome)
                /\ qi' = qi + 1
                /\ pc' = IF qi = Len(FixedLabels) THEN "run_complex_query" ELSE pc
                /\ UNCHANGED <<futures, conc_results, fatal, round_errors>>
    /\ UNCHANGED <<argVars, sqlite_conn, pg_settings, searchVars, storeVars,
                   last_set, last_save, closed, dataset, best,
                   probeVars>>

\* run_enhanced_test_suite, lines 189-190.
RunComplexQuery ==
    /\ pc = "run_complex_query"
    /\ IF pg_conn # "open"
         THEN /\ RaiseInRound("InterfaceError")
              /\ UNCHANGED <<pg_conn, batchVars, budget, executing>>
         ELSE \E outcome \in {"ok"} \cup ProbeFaults :
                /\ outcome # "ok" => MayFault
                /\ Fault(outcome # "ok")
                /\ executing' = StillExecuting(ComplexLabel, outcome)
                /\ results' = DictSet(results, ComplexLabel, RunQueryValue(outcome))
                /\ raised' = IF Raises(outcome) THEN raised \cup {ComplexLabel} ELSE raised
                /\ pg_conn' = ConnAfter(outcome)
                /\ pc' = "run_concurrent_queries"
                /\ UNCHANGED <<qi, futures, conc_results, fatal, round_errors>>
    /\ UNCHANGED <<argVars, sqlite_conn, pg_settings, searchVars, storeVars,
                   last_set, last_save, closed, dataset, best,
                   probeVars>>

\* run_concurrent_queries, lines 177-179: the five futures are submitted
\* together and the pool's workers take them in submission order; worker i
\* ends its run_query, and as_completed hands the finished future to the
\* list being built.
AsCompleted(i, value) == Append(conc_results, value)

NoException == \A j \in 1..NumConcurrent : futures[j].state # "exception"

\* The pool's workers that are running a query.
Busy == Cardinality({j \in 1..NumConcurrent : futures[j].state = "running"})

\* The deadline thread of a query, had it to wait for a worker of the pool.
FuncThreadNeedsWorker(busy) == busy < MaxWorkers

\* run_with_timeout lines 11-24: FuncThread is a threading.Thread of its
\* own; it starts whatever the load of the pool.
FuncThreadStarts(busy) == TRUE

\* A free worker takes query i from the pool's queue and enters run_query:
\* line 79 makes the cursor (and raises on a lost connection, outside the
\* try), then the execution is started on the connection.
WorkerStart(i) ==
    /\ pc = "run_concurrent_queries"
    /\ futures[i].state = "pending"
    /\ \A j \in 1..(i - 1) : futures[j].state # "pending"
    /\ Busy < MaxWorkers
    /\ IF pg_conn # "open"
         THEN /\ futures' = [futures EXCEPT ![i] = [state |-> "exception", value |-> 0]]
              /\ UNCHANGED executing
         ELSE /\ futures' = [futures EXCEPT ![i] = [state |-> "running", value |-> 0]]
              /\ executing' = executing \cup {ConcurrentLabels[i]}
    /\ UNCHANGED <<pc, pg_conn, results, qi, conc_results, raised, fatal, round_errors,
                   budget>>
    /\ UNCHANGED <<argVars, sqlite_conn, pg_settings, searchVars, storeVars,
                   last_set, last_save, closed, dataset, best, probeVars>>

\* Worker i's run_query returns; a connection lost since the query started
\* makes its execution raise.
ConcurrentQuery(i) ==
    /\ pc = "run_concurrent_queries"
    /\ futures[i].state = "running"
    /\ FuncThreadStarts(Busy)
    /\ \E outcome \in {"ok"} \cup ProbeFaults :
         /\ IF pg_conn # "open"
              THEN outcome = "error" /\ UNCHANGED budget
              ELSE /\ outcome # "ok" => MayFault
                   /\ Fault(outcome # "ok")
         /\ futures' = [futures EXCEPT
                          ![i] = [state |-> "result", value |-> RunQueryValue(outcome)]]
         /\ conc_results' = IF NoException
                              THEN AsCompleted(i, RunQueryValue(outcome))
                              ELSE conc_results
         /\ raised' = IF Raises(outcome)
                        THEN raised \cup {ConcurrentLabels[i]} ELSE raised
         /\ pg_conn' = ConnAfter(outcome)
         /\ executing' = StillExecuting(ConcurrentLabels[i], outcome)
    /\ UNCHANGED <<pc, results, qi, fatal, round_errors>>
    /\ UNCHANGED <<argVars, sqlite_conn, pg_settings, searchVars, storeVars,
                   last_set, last_save, closed, dataset, best, probeVars>>

\* An execution whose caller has given up ends by itself, at its own time.
ExecutionEnds(label) ==
    /\ label \in executing
    /\ \A j \in 1..NumConcurrent :
          ConcurrentLabels[j] = label => futures[j].state # "running"
    /\ executing' = executing \ {label}
    /\ UNCHANGED <<argVars, pc, connVars, pg_settings, searchVars, batchVars,
                   storeVars, logVars, dataset, best, budget, probeVars>>

\* Lines 180-182 and 194-201: all futures are done; the aggregate span
\* (here the longest probe) and the positional labels are entered, or the
\* exception of a future is re-raised by future.result().
RunConcurrentReturn ==
    /\ pc = "run_concurrent_queries"
    /\ \A j \in 1..NumConcurrent : futures[j].state \in {"result", "exception"}
    /\ IF NoException
         THEN /\ results' =
                   LET withTotal == DictSet(results, ConcurrentLabel, SeqMax(conc_results))
                       Enter[n \in 0..NumConcurrent] ==
                           IF n = 0 THEN withTotal
                           ELSE DictSet(Enter[n - 1], ConcurrentLabels[n], conc_results[n])
                   IN  Enter[NumConcurrent]
              /\ pc' = "save_results"
              /\ UNCHANGED <<fatal, round_errors>>
         ELSE /\ RaiseInRound("InterfaceError")
              /\ UNCHANGED results
    /\ UNCHANGED <<qi, futures, conc_results, raised>>
    /\ UNCHANGED <<argVars, connVars, pg_settings, searchVars, storeVars,
                   last_set, last_save, closed, budget, executing, dataset, best,
                   probeVars>>

\* ---- run_enhanced_test_suite as one step of the harness, lines 184-201 ----
\* A scenario is how each of the ten probes goes (the four fixed queries, the
\* heavy query, the five concurrent queries in submission order) and the
\* order in which the concurrent queries complete.
Scenario(out, order) == [out |-> out, order |-> order]
NumFixed == Len(FixedLabels)
NumProbes == NumFixed + 1 + NumConcurrent

\* The probes in the order they execute.
ExecOrder(s) ==
    [p \in 1..NumProbes |->
        IF p <= NumFixed + 1 THEN p ELSE NumFixed + 1 + s.order[p - NumFixed - 1]]

\* A probe that loses the connection leaves the next probe's cursor() call,
\* which is outside run_query's try, to raise.
BatchRaises(s) == \E p \in 1..(NumProbes - 1) : s.out[ExecOrder(s)[p]] = "lost"
BatchLosesConnection(s) == \E p \in 1..NumProbes : s.out[p] = "lost"

\* The probes that timed out: their executions are left running.
Abandoned(s) == {ProbeLabel(p) : p \in {q \in 1..NumProbes : s.out[q] = "timeout"}}

\* The mapping run_enhanced_test_suite returns.
EnhancedResults(s) ==
    LET Fixed[n \in 0..NumFixed] ==
            IF n = 0 THEN <<>>
            ELSE DictSet(Fixed[n - 1], TestAt(n), RunQueryValue(s.out[n]))
        withComplex == DictSet(Fixed[NumFixed], ComplexLabel,
                               RunQueryValue(s.out[NumFixed + 1]))
        concurrent_results ==
            [n \in 1..NumConcurrent |-> RunQueryValue(s.out[NumFixed + 1 + s.order[n]])]
        withTotal == DictSet(withComplex, ConcurrentLabel, SeqMax(concurrent_results))
        Enter[n \in 0..NumConcurrent] ==
            IF n = 0 THEN withTotal
            ELSE DictSet(Enter[n - 1], ConcurrentLabels[n], concurrent_results[n])
    IN  Enter[NumConcurrent]

\* The batches of Spec: every probe completes; or one goes wrong.
InOrder == [n \in 1..NumConcurrent |-> n]
FirstLast == [n \in 1..NumConcurrent |-> IF n = NumConcurrent THEN 1 ELSE n + 1]
AllOk == Scenario([p \in 1..NumProbes |-> "ok"], InOrder)
FaultScenarios ==
    { Scenario([AllOk.out EXCEPT ![1] = "error"], InOrder),
      Scenario([AllOk.out EXCEPT ![NumFixed + 2] = "timeout"], FirstLast),
      Scenario([AllOk.out EXCEPT ![NumFixed + 1] = "lost"], InOrder) }

RunEnhancedTestSuite ==
    /\ pc = "run_enhanced_test_suite"
    /\ IF pg_conn # "open"
         THEN /\ RaiseInRound("InterfaceError")
              /\ UNCHANGED <<pg_conn, results, budget, executing>>
         ELSE \E s \in {AllOk} \cup FaultScenarios :
                /\ s # AllOk => MayFault
                /\ Fault(s # AllOk)
                /\ pg_conn' = IF BatchLosesConnection(s) THEN "broken" ELSE pg_conn
                /\ executing' = IF BatchLosesConnection(s) THEN {}
                                ELSE executing \cup Abandoned(s)
                /\ IF BatchRaises(s)
                     THEN /\ RaiseInRound("InterfaceError")
                          /\ UNCHANGED results
                     ELSE /\ results' = EnhancedResults(s)
                          /\ pc' = "save_results"
                          /\ UNCHANGED <<fatal, round_errors>>
    /\ UNCHANGED <<argVars, sqlite_conn, pg_settings, searchVars, qi, futures,
                   conc_results, raised, storeVars, last_set, last_save, closed,
                   dataset, best,
                   probeVars>>

\* ---- save_results, lines 124-136 ----
\* The row inserted for one item of the mapping.
Row(item) ==
    [work_mem |-> cur[1],
     effective_cache_size |-> cur[2],
     random_page_cost |-> IF use_bayesian_optimization THEN cur[3] ELSE PyFloat(cur[3]),
     execution_time |-> item.execution_time,
     test_name |-> item.test_name]

NewRows(n) == [j \in 1..n |-> Row(results[j])]

\* Where an INSERT (after 0 or 1 rows) or the commit (after all) may fail.
SaveFailPoints == {0, 1, Len(results)}

SaveResults ==
    /\ pc = "save_results"
    /\ \E ok \in BOOLEAN : \E n \in SaveFailPoints :
         /\ ~ok => MayFault
         /\ ok => n = Len(results)
         /\ Fault(~ok)
         /\ IF ok
              THEN /\ sqlite_rows' = sqlite_rows \o sqlite_pending \o NewRows(n)
                   /\ sqlite_pending' = <<>>
                   /\ last_save' = [round |-> idx, status |-> "ok"]
                   /\ pc' = IF use_bayesian_optimization
                              THEN "objective_return" ELSE "next_round"
                   /\ UNCHANGED <<fatal, round_errors>>
              ELSE /\ sqlite_pending' = sqlite_pending \o NewRows(n)
                   /\ last_save' = [round |-> idx, status |-> "failed"]
                   /\ RaiseInRound("sqlite3.Error")
                   /\ UNCHANGED sqlite_rows
    /\ UNCHANGED <<argVars, connVars, pg_settings, searchVars, batchVars,
                   last_set, closed, executing, dataset, best,
                   probeVars>>

\* objective_function line 120: np.sum(list(results.values())).
Objective(d) == SeqSum(DictValues(d))

\* objective_function line 120: the sum of the mapping's values goes back to
\* the optimizer, which adds the observation.
ObjectiveReturn ==
    /\ pc = "objective_return"
    /\ obs' = Append(obs, [x |-> cur, fx |-> Objective(results), round |-> idx])
    /\ pc' = "next_round"
    /\ UNCHANGED <<argVars, connVars, pg_settings, combinations, idx, cur, visited,
                   batchVars, storeVars, logVars, budget, executing, dataset, best,
                   probeVars>>

\* ---- the finally block, lines 248-250, and close_connections ----
CloseConnections ==
    /\ pc = "close_connections"
    /\ pg_conn' = IF pg_conn = None THEN None ELSE "closed"
    /\ sqlite_conn' = IF sqlite_conn = None THEN None ELSE "closed"
    \* rows inserted and never committed are gone with the connection
    /\ sqlite_pending' = <<>>
    /\ closed' = TRUE
    \* a closed connection executes nothing
    /\ executing' = {}
    /\ pc' = "done"
    /\ UNCHANGED <<argVars, pg_settings, searchVars, batchVars, sqlite_rows,
                   last_set, last_save, round_errors, fatal, budget, dataset, best,
                   probeVars>>

Next ==
    \/ ConnectPostgresql
    \/ ConnectSqlite
    \/ CreateSqliteTables
    \/ ClearSqliteData
    \/ SetupTestEnvironment
    \/ StartSearch
    \/ GridNext
    \/ OptimizerNext
    \/ SetParameterValue
    \/ RunEnhancedTestSuite
    \/ SaveResults
    \/ ObjectiveReturn
    \/ \E p \in 1..NumProbes : ExecutionEnds(ProbeLabel(p))
    \/ CloseConnections

Spec == Init /\ [][Next]_vars

\* ---- BatchSpec: one batch, probe by probe, and the way to the next
\* round's first SET ----
BatchNext ==
    \/ RunTestSuiteQuery
    \/ RunComplexQuery
    \/ \E i \in 1..NumConcurrent : WorkerStart(i)
    \/ \E i \in 1..NumConcurrent : ConcurrentQuery(i)
    \/ RunConcurrentReturn
    \/ \E p \in 1..NumProbes : ExecutionEnds(ProbeLabel(p))
    \/ SaveResults
    \/ GridNext

BatchSpec == BatchInit /\ [][BatchNext]_vars

ProbeSpec == ProbeInit /\ [][ProbeNext]_vars

\* ProbeSpec under the scheduling the interpreter gives: the caller and the
\* thread, each when it can run, do run, and time passes.
\* Every step of ProbeNext moves the caller, the thread or the clock.
probePos == <<cpc, tpc, now>>

ProbeLiveSpec ==
    /\ ProbeSpec
    /\ WF_probePos(RunQueryBegin) /\ WF_probePos(FuncThreadStart)
    /\ WF_probePos(JoinCall) /\ WF_probePos(JoinReturn)
    /\ WF_probePos(CheckAlive) /\ WF_probePos(CheckExc)
    /\ WF_probePos(FuncThreadRun) /\ WF_probePos(Tick)

\* ------------------------------------------------------------------------
\* C1
\* ------------------------------------------------------------------------
\* The execution of the probe lasts longer than the deadline.
ExceedsDeadline == qout = "hang" \/ qdur > timeout

\* C1: a probe whose execution lasts longer than its deadline d returns
\* exactly d from run_query, for every interleaving of caller and thread.
C1_TimeoutYieldsDeadline ==
    (cpc = "returned" /\ ExceedsDeadline) => ret = timeout

\* ------------------------------------------------------------------------
\* C2, C3 (BatchSpec)
\* ------------------------------------------------------------------------
BatchRunning == pc \in {"run_test_suite", "run_complex_query", "run_concurrent_queries"}

AllLabels ==
    {FixedLabels[n] : n \in 1..Len(FixedLabels)} \cup {ComplexLabel, ConcurrentLabel}
        \cup {ConcurrentLabels[n] : n \in 1..NumConcurrent}

\* C2: whatever probes of a batch raise, no exception leaves run_query, the
\* batch returns its mapping (the first batch is not left before its mapping
\* is handed to save_results) with every label present, and the label of
\* each probe whose execution raised holds -1.
C2_ErrorsYieldSentinel ==
    /\ (~BatchRunning /\ last_save = NoSave) => pc = "save_results"
    /\ pc = "save_results" =>
          /\ \A l \in AllLabels : DictHas(results, l)
          /\ \A l \in raised : DictGet(results, l) = ErrSentinel

\* C3: when the batch returns, the sample under positional label i is the
\* result of the i-th submitted concurrent query, whatever the completion
\* order was.
C3_LabelsFollowSubmission ==
    pc = "save_results" =>
        \A i \in 1..NumConcurrent :
            DictGet(results, ConcurrentLabels[i]) = futures[i].value

\* ------------------------------------------------------------------------
\* C4 (Spec)
\* ------------------------------------------------------------------------
\* The place of a value in a list of distinct values.
IndexOf(list, v) == CHOOSE n \in 1..Len(list) : list[n] = v

\* The index triple of a visited combination.
IndexTriple(combo) ==
    <<IndexOf(parameter_values.work_mem, combo[1]),
      IndexOf(parameter_values.effective_cache_size, combo[2]),
      IndexOf(parameter_values.random_page_cost, combo[3])>>

LexLess(x, y) ==
    \/ x[1] < y[1]
    \/ x[1] = y[1] /\ x[2] < y[2]
    \/ x[1] = y[1] /\ x[2] = y[2] /\ x[3] < y[3]

IsCombination(combo) ==
    /\ \E n \in 1..Len(parameter_values.work_mem) : parameter_values.work_mem[n] = combo[1]
    /\ \E n \in 1..Len(parameter_values.effective_cache_size) :
          parameter_values.effective_cache_size[n] = combo[2]
    /\ \E n \in 1..Len(parameter_values.random_page_cost) :
          parameter_values.random_page_cost[n] = combo[3]

ProductSize ==
    Len(parameter_values.work_mem) * Len(parameter_values.effective_cache_size)
        * Len(parameter_values.random_page_cost)

\* The round loop has run to its end: the run is at its finally block or past
\* it and no exception reached the outer handler (only a failed start-up or a
\* lost service connection raises one there in grid mode).
LoopExhausted == pc \in {"close_connections", "done"} /\ fatal = None

\* C4: in grid mode the rounds started are combinations of the supplied
\* lists in strictly increasing lexicographic order of their positions in
\* the lists (so none is visited twice), and once the loop has run to its
\* end their number is the product of the list lengths, whatever probe
\* errors, time-outs, apply mismatches or save failures the rounds met.
C4_GridVisitsProduct ==
    ~use_bayesian_optimization =>
        /\ \A p \in 1..Len(visited) : IsCombination(visited[p])
        /\ \A p, q \in 1..Len(visited) :
              p < q => LexLess(IndexTriple(visited[p]), IndexTriple(visited[q]))
        /\ LoopExhausted => Len(visited) = ProductSize

\* A grid run over two lists of two values ran to its end although a round
\* raised at its boundary.
C4_Witness ==
    /\ ~use_bayesian_optimization
    /\ pc = "done" /\ fatal = None
    /\ Len(parameter_values.work_mem) = 2
    /\ Len(parameter_values.random_page_cost) = 2
    /\ Len(visited) = 4
    /\ round_errors # <<>>
    /\ last_save.status = "failed"

\* ------------------------------------------------------------------------
\* C5 (Spec)
\* ------------------------------------------------------------------------
\* Everything inserted into performance_tests, committed or not.
Stored == sqlite_rows \o sqlite_pending

\* A size held in a row, in tenths of a kB: grid rows hold the text, rows of
\* the model-based mode the real number of MB (in tenths).
RowSizeTenthsKB(x) ==
    IF use_bayesian_optimization THEN x * 1024 ELSE ParseSize(x) * 10

\* The row's three parameter values are those of the configuration.
RowMatches(r, settings) ==
    /\ RowSizeTenthsKB(r.work_mem) = settings.work_mem * 10
    /\ RowSizeTenthsKB(r.effective_cache_size) = settings.effective_cache_size * 10
    /\ Abs(r.random_page_cost - settings.random_page_cost) < Epsilon

\* C5: every row save_results inserts carries the configuration active on
\* the service while the round's probes ran (the configuration of the moment
\* of the save: nothing is SET between batch and save), and a batch starts
\* only when the third SET of its round has returned.
C5_RowsCarryActiveConfig ==
    [][ /\ \A j \in (Len(Stored) + 1)..Len(Stored') :
              pc = "save_results" => RowMatches(Stored'[j], pg_settings)
        /\ (pc' = "run_enhanced_test_suite" /\ pc # pc')
              => pc = "set_random_page_cost" ]_vars

\* ------------------------------------------------------------------------
\* C6, C7 (Spec)
\* ------------------------------------------------------------------------
\* The comparison policy: a float parameter matches within 1e-6, any other
\* parameter only when the text read back is the text sent.
Policy(name, value, actual) ==
    IF name \in {"random_page_cost", "cpu_tuple_cost", "cpu_index_tuple_cost"}
      THEN IF actual.v - value.v < Epsilon /\ value.v - actual.v < Epsilon
             THEN "ok" ELSE "warning"
      ELSE IF actual.n = value.n /\ actual.u = value.u THEN "ok" ELSE "warning"

\* The call that has just returned got a value back from SHOW.
Verified(call) == call.log \in {"ok", "warning"}

NextAfter(name) ==
    CASE name = "work_mem" -> "set_effective_cache_size"
      [] name = "effective_cache_size" -> "set_random_page_cost"
      [] OTHER -> "run_enhanced_test_suite"

\* C6: a set_parameter_value call whose SHOW returned a value never raises:
\* it prints a warning exactly when the policy finds a mismatch, returns
\* normally, and the round goes on to its next step.
C6_MismatchOnlyWarns ==
    [][ (last_set'.name # last_set.name /\ Verified(last_set')) =>
            /\ ~last_set'.raised
            /\ last_set'.log = Policy(last_set'.name, last_set'.value, last_set'.actual)
            /\ pc' = NextAfter(last_set'.name)
            /\ fatal' = fatal
            /\ round_errors' = round_errors ]_vars

\* The server settled exactly 1e-6 away from the requested random_page_cost:
\* a warning, and the batch is next.
C6_Witness ==
    /\ last_set.name = "random_page_cost"
    /\ last_set.log = "warning"
    /\ last_set.value.v - last_set.actual.v = Epsilon
    /\ ~last_set.raised
    /\ pc = "run_enhanced_test_suite"

\* C7: a set_parameter_value call whose SET or SHOW failed hands its caller
\* something other than what a successful call hands back (None), or raises.
C7_SetFailureSurfaced ==
    last_set.log = "error" => (last_set.raised \/ last_set.ret # None)

\* ------------------------------------------------------------------------
\* C8, C9, C10 (Spec)
\* ------------------------------------------------------------------------
\* The rounds the search strategy plans: the combinations, or the
\* optimizer's evaluations.
PlannedRounds == IF use_bayesian_optimization THEN MaxEvals ELSE Len(combinations)

\* C8: in both modes, when the run reaches its finally block with the
\* service connection still intact and at least one round started, every
\* planned round was started: no failure inside a round kept the later
\* rounds from running.
C8_RoundFailureContained ==
    (pc = "close_connections" /\ pg_conn = "open" /\ idx >= 1) => idx = PlannedRounds

\* The service connection failed: at connect, or in the SET or SHOW of the
\* last set_parameter_value call.
TransportFailure ==
    \/ pg_conn = None /\ pc # "connect_postgresql"
    \/ last_set.error = "OperationalError"

\* C9: once the service connection has failed no further round is started,
\* and the run does not end without close_connections having been called.
C9_TransportFailureEndsRun ==
    [][ /\ TransportFailure => idx' = idx
        /\ pc' = "done" => closed' ]_vars

RoundErrors == {round_errors[n] : n \in 1..Len(round_errors)}
Observed == {obs[n].round : n \in 1..Len(obs)}

\* The exception of the last save_results call reached a handler of the
\* harness.
SaveFailureSurfaced == last_save.round \in RoundErrors \/ fatal = "sqlite3.Error"

\* C10 as stated: after a failed save the failure has reached the harness and
\* neither the grid cursor nor the optimizer's observation set has moved
\* past the failed round.
C10_SaveFailureHaltsStrategy ==
    last_save.status = "failed" =>
        /\ SaveFailureSurfaced
        /\ idx = last_save.round
        /\ last_save.round \notin Observed

\* C10 as amended: after a failed save the exception has reached a handler
\* of the harness. In model-based mode it is the outer handler: no objective
\* is returned for the round, the observation set does not grow and no
\* further round starts. In grid mode it is the round's handler: the failure
\* is logged and the run is not aborted by it.
C10_SaveFailureSurfaced ==
    last_save.status = "failed" =>
        /\ SaveFailureSurfaced
        /\ use_bayesian_optimization =>
              /\ fatal = "sqlite3.Error"
              /\ idx = last_save.round
              /\ last_save.round \notin Observed
              /\ pc \in {"close_connections", "done"}
        /\ ~use_bayesian_optimization =>
              /\ last_save.round \in RoundErrors
              /\ fatal # "sqlite3.Error"

\* The optimizer's second round failed to save after its first was observed.
C10_Witness ==
    /\ use_bayesian_optimization
    /\ last_save.status = "failed"
    /\ last_save.round = 2
    /\ Len(obs) = 1
    /\ pc = "done"

\* ------------------------------------------------------------------------
\* C11 (Spec)
\* ------------------------------------------------------------------------
\* C11: rows become durable only in a save_results call that succeeds, and
\* then they are exactly the rows of that call's mapping: nothing a failed
\* call inserted is made durable, by that call or by a later one.
C11_SaveIsAtomic ==
    [][ (pc # "clear_sqlite_data" /\ sqlite_rows' # sqlite_rows) =>
            /\ pc = "save_results"
            /\ last_save'.status = "ok"
            /\ Len(sqlite_rows') = Len(sqlite_rows) + Len(results)
            /\ \A j \in 1..Len(results) :
                  sqlite_rows'[Len(sqlite_rows) + j].test_name = results[j].test_name ]_vars

\* ------------------------------------------------------------------------
\* C12 (BatchSpec)
\* ------------------------------------------------------------------------
\* C12: no two workers of the pool that are running a query at the same
\* time run it on the same connection.
C12_WorkersOwnConnections ==
    \A i, j \in 1..NumConcurrent :
        (i # j /\ futures[i].state = "running" /\ futures[j].state = "running")
            => ProbeConn(ConcurrentLabels[i]) # ProbeConn(ConcurrentLabels[j])

\* ------------------------------------------------------------------------
\* C13 (Spec)
\* ------------------------------------------------------------------------
\* The sum of the samples of a mapping, label by label.
RECURSIVE LabelSum(_, _)
LabelSum(d, labels) ==
    IF labels = {} THEN 0
    ELSE LET l == CHOOSE x \in labels : TRUE
         IN  DictGet(d, l) + LabelSum(d, labels \ {l})

\* C13: in model-based mode the objective handed to the optimizer for a
\* round is the sum of every sample of the round's mapping, time-outs and
\* sentinels included, and it is handed over only when the round's batch
\* has run and its rows are durable.
C13_ObjectiveIsBatchSum ==
    [][ obs' # obs =>
            /\ use_bayesian_optimization
            /\ Len(obs') = Len(obs) + 1
            /\ \A l \in AllLabels : DictHas(results, l)
            /\ Len(results) = Cardinality(AllLabels)
            /\ obs'[Len(obs')].x = cur
            /\ obs'[Len(obs')].round = idx
            /\ obs'[Len(obs')].fx = LabelSum(results, AllLabels)
            /\ last_save.round = idx /\ last_save.status = "ok"
            /\ Len(sqlite_rows) >= Len(results)
            /\ \A j \in 1..Len(results) :
                  LET r == sqlite_rows[Len(sqlite_rows) - Len(results) + j]
                  IN  /\ r.test_name = results[j].test_name
                      /\ r.execution_time = results[j].execution_time ]_vars

\* An objective that counts a sentinel: ten probes of one second and the
\* aggregate of one second, the first probe having raised.
C13_Witness ==
    /\ use_bayesian_optimization
    /\ \E n \in 1..Len(obs) : obs[n].fx = (NumProbes + 1) - 1 + ErrSentinel

\* ------------------------------------------------------------------------
\* C14 (Spec)
\* ------------------------------------------------------------------------
\* C14: setup_test_environment on a populated dataset leaves the rows of
\* users and orders as they were.
C14_SetupIsIdempotent ==
    [][ (pc = "setup_test_environment" /\ dataset # NoData) => dataset' = dataset ]_vars

\* ------------------------------------------------------------------------
\* C15 (Spec)
\* ------------------------------------------------------------------------
\* C15: a save_results call that succeeds inserts one row per label of the
\* enhanced batch: eleven rows, their labels pairwise distinct and the
\* batch's labels, none missing.
C15_OneFullLabelSet ==
    [][ (pc = "save_results" /\ pc' # pc /\ last_save'.status = "ok") =>
            LET new == SubSeq(Stored', Len(Stored) + 1, Len(Stored'))
                names == {new[j].test_name : j \in 1..Len(new)}
            IN  /\ Len(new) = NumFixed + 2 + NumConcurrent
                /\ Cardinality(names) = Len(new)
                /\ names = AllLabels ]_vars

\* Two rounds have persisted, a full label set each.
C15_Witness ==
    /\ last_save.round = 2 /\ last_save.status = "ok"
    /\ Len(sqlite_rows) = 2 * (NumFixed + 2 + NumConcurrent)

\* ------------------------------------------------------------------------
\* C16 (Spec)
\* ------------------------------------------------------------------------
\* The least objective among the first n observations.
BestSoFar(n) ==
    CHOOSE v \in {obs[m].fx : m \in 1..n} : \A m \in 1..n : v <= obs[m].fx

C17_RunQueryReturns == <>(cpc = "returned")

\* run_query returned the deadline for an execution that hangs.
C17_Witness == cpc = "returned" /\ qout = "hang" /\ ret = timeout

\* ------------------------------------------------------------------------
\* C18, C19, C20 (BatchSpec)
\* ------------------------------------------------------------------------
\* A step of a worker of the pool.
WorkerNext ==
    \/ \E i \in 1..NumConcurrent : WorkerStart(i)
    \/ \E i \in 1..NumConcurrent : ConcurrentQuery(i)

\* C18: until the concurrent sub-batch returns, a worker can take a step or
\* all five futures have completed (and the sub-batch returns); and the
\* aggregate is entered only when all five futures have completed and their
\* five results are collected.
C18_PoolNeverDeadlocks ==
    /\ pc = "run_concurrent_queries" =>
          \/ \A i \in 1..NumConcurrent : futures[i].state \in {"result", "exception"}
          \/ ENABLED WorkerNext
    /\ DictHas(results, ConcurrentLabel) =>
          /\ \A i \in 1..NumConcurrent : futures[i].state = "result"
          /\ Len(conc_results) = NumConcurrent

\* The sub-batch returned although one of its probes ran into the deadline.
C18_Witness ==
    /\ pc = "save_results"
    /\ \E i \in 1..NumConcurrent : futures[i].value = DefaultTimeout
    /\ DictGet(results, ConcurrentLabel) = DefaultTimeout

\* run_query has, in this step, returned the deadline for the probe.
TimedOutNow(label) ==
    \/ /\ pc \in {"run_test_suite", "run_complex_query"}
       /\ ~DictHas(results, label)
       /\ DictHas(results', label)
       /\ DictGet(results', label) = DefaultTimeout
    \/ \E i \in 1..NumConcurrent :
          /\ ConcurrentLabels[i] = label
          /\ futures[i].state = "running"
          /\ futures'[i].state = "result"
          /\ futures'[i].value = DefaultTimeout

\* The worker running the probe has, in this step, returned from run_query.
WorkerReturnsNow(label) ==
    \E i \in 1..NumConcurrent :
        /\ ConcurrentLabels[i] = label
        /\ futures[i].state = "running"
        /\ futures'[i].state = "result"

\* C19: the execution of a probe that timed out is still in progress when
\* its run_query returns, and nothing the harness does afterwards ends it:
\* it ends by itself, or with the connection.
C19_AbandonedKeepsRunning ==
    [][ /\ \A p \in 1..NumProbes :
              TimedOutNow(ProbeLabel(p)) => ProbeLabel(p) \in executing'
        /\ \A l \in executing \ executing' :
              \/ pg_conn' # "open"
              \/ WorkerReturnsNow(l) /\ ~TimedOutNow(l)
              \/ UNCHANGED <<pc, pg_conn, results, qi, futures, idx>> ]_vars

\* The first probe of round 1 timed out; its execution is still in progress
\* as round 2 is about to issue its first SET, the rest of the batch having
\* run meanwhile.
C19_Witness ==
    /\ pc = "set_work_mem"
    /\ idx = 2
    /\ TestAt(1) \in executing
    /\ last_save.round = 1

\* C20: the fixed queries are run one after the other in declaration order:
\* the samples stand in the mapping in that order, a query is called when
\* the samples of all before it are entered, and between two calls the only
\* executions in progress are those of probes already returned on time-out.
C20_FixedPhaseInOrder ==
    /\ \A j \in 1..Len(results) : j <= NumFixed => results[j].test_name = FixedLabels[j]
    /\ pc = "run_test_suite" =>
          /\ Len(results) = qi - 1
          /\ \A l \in executing :
                DictHas(results, l) /\ DictGet(results, l) = DefaultTimeout
    /\ pc \in {"run_complex_query", "run_concurrent_queries", "save_results"} =>
          Len(results) >= NumFixed

\* The second fixed query timed out and is still executing; the third was
\* run after it and completed.
C20_Witness ==
    /\ pc = "run_complex_query"
    /\ FixedLabels[2] \in executing
    /\ DictGet(results, FixedLabels[2]) = DefaultTimeout
    /\ DictGet(results, FixedLabels[3]) = 1

\* ------------------------------------------------------------------------
\* C21, C22 (Spec)
\* ------------------------------------------------------------------------
\* The attempt to connect to the service has been made and has failed.
ServiceConnectFailed == pg_conn = None /\ pc # "connect_postgresql"

\* C21: a run whose connection to the service failed leaves the rows of the
\* result store as they were, starts no round, and does not end without
\* close_connections having been called.
C21_WipeNeedsService ==
    [][ ServiceConnectFailed =>
            /\ sqlite_rows' = sqlite_rows
            /\ idx' = 0
            /\ pc' = "done" => closed' ]_vars

\* C22: the objective handed to the optimizer for a round in which a probe
\* raised (sample -1) is not lower than the objective of the round with the
\* same samples except that this probe completed.
C22_FailureNotRewarded ==
    [][ obs' # obs =>
            \A j \in 1..Len(results) :
                results[j].execution_time = ErrSentinel =>
                    obs'[Len(obs')].fx >=
                        Objective(DictSet(results, results[j].test_name,
                                          RunQueryValue("ok"))) ]_vars

====
